---- MODULE Spec2Model ----
(***************************************************************************)
(* A model of draftjs-to-markdown (src/js/index.ts, src/js/common.ts).     *)
(*                                                                         *)
(* The library is a set of pure functions.  The state machine is a single  *)
(* caller: from the idle state it calls one function of the library with   *)
(* arguments drawn from bounded sets, and the state then records the call  *)
(* (op, args), what the function returned (ret) and, for                   *)
(* getBlockContentMarkdown, the branch it took (path).  The loop of        *)
(* getHashtagRanges is also followed one iteration at a time: ret then     *)
(* holds the loop's variables and path whether the loop still runs.        *)
(*                                                                         *)
(* JavaScript strings are tuples of one-character strings, so that every   *)
(* string operation of the source (startsWith, indexOf, substr, replace,   *)
(* trim, character escaping) is computed character by character.  Offsets  *)
(* are the 0-based JavaScript offsets; the tuple index of offset i is i+1. *)
(* An optional value (a possibly undefined slot) is <<>> when undefined    *)
(* and <<v>> when it holds v.                                              *)
(***************************************************************************)
EXTENDS Integers, Sequences, FiniteSets, TLC

VARIABLES op, args, ret, path

vars == <<op, args, ret, path>>

-----------------------------------------------------------------------------
(* Bounds of the model. *)

\* longest block text enumerated over Alphabet
MaxLen == 3
\* longest text enumerated over HashAlphabet for the hashtag scan
MaxHashLen == 4
\* deepest list nesting enumerated
MaxDepth == 2
\* the hashtag ranges a scan followed step by step may collect: beyond it the
\* scan is followed no further
MaxScanRanges == 4

-----------------------------------------------------------------------------
(* JavaScript string and array primitives. *)

\* the character ` (a TLA+ string cannot hold it)
Backquote == "backquote"

Undefined == <<>>

Some(v) == <<v>>

IsDefined(o) == Len(o) > 0

Min(a, b) == IF a < b THEN a ELSE b

Max(a, b) == IF a > b THEN a ELSE b

\* String.prototype.substr(n): the characters from offset n on
Substr(s, n) == SubSeq(s, n + 1, Len(s))

\* String.prototype.substr(n, l) / substring(n, n + l)
SubstrLen(s, n, l) == SubSeq(s, n + 1, Min(n + l, Len(s)))

\* String.prototype.startsWith
StartsWith(s, p) == Len(p) <= Len(s) /\ SubSeq(s, 1, Len(p)) = p

\* String.prototype.indexOf: the first offset of p in s, or -1
IndexOf(s, p) ==
    LET hits == {i \in 0..(Len(s) - Len(p)) : SubSeq(s, i + 1, i + Len(p)) = p}
    IN  IF hits = {} THEN -1 ELSE CHOOSE i \in hits : \A j \in hits : i <= j

\* Array.prototype.join('') of an array of strings
RECURSIVE Join(_)
Join(ss) == IF ss = <<>> THEN <<>> ELSE Head(ss) \o Join(Tail(ss))

\* the characters String.prototype.trim removes (those of the model's alphabets)
IsWhitespace(ch) == ch \in {" ", "\n", "\t"}

\* String.prototype.trim
RECURSIVE TrimStart(_)
TrimStart(s) ==
    IF s # <<>> /\ IsWhitespace(Head(s)) THEN TrimStart(Tail(s)) ELSE s

RECURSIVE TrimEnd(_)
TrimEnd(s) ==
    IF s # <<>> /\ IsWhitespace(s[Len(s)]) THEN TrimEnd(SubSeq(s, 1, Len(s) - 1)) ELSE s

Trim(s) == TrimEnd(TrimStart(s))

\* String.prototype.repeat
RECURSIVE Repeat(_, _)
Repeat(s, n) == IF n <= 0 THEN <<>> ELSE s \o Repeat(s, n - 1)

-----------------------------------------------------------------------------
(* src/js/common.ts *)

isEmptyString(str) == Len(str) = 0 \/ Len(Trim(str)) = 0

isList(blockType) ==
    blockType = "unordered-list-item" \/ blockType = "ordered-list-item"

-----------------------------------------------------------------------------
(* Hashtag scan: getHashtagRanges. *)

DefaultTrigger == <<"#">>

DefaultSeparator == <<" ">>

\* the loop's variables before its first iteration
HashInit(text) ==
    [text |-> text, counter |-> 0, startIndex |-> 0, preSections |-> <<>>]

\* the loop's condition
HashContinues(st) == Len(st.text) > 0 /\ st.startIndex >= 0

\* one iteration of the loop's body
HashStep(st, hashConfig) ==
    LET trigger == hashConfig.trigger
        separator == hashConfig.separator
        starts == StartsWith(st.text, trigger)
        found == IndexOf(st.text, separator \o trigger)
        startIndex == IF starts THEN 0 ELSE found
        text1 == IF starts THEN Substr(st.text, Len(trigger))
                 ELSE IF found >= 0
                      THEN Substr(st.text, found + Len(separator \o trigger))
                      ELSE st.text
        counter1 == IF starts THEN 0
                    ELSE IF found >= 0 THEN st.counter + found + Len(separator)
                         ELSE st.counter
        sepAt == IndexOf(text1, separator)
        endIndex == IF sepAt >= 0 THEN sepAt ELSE Len(text1)
        hashtagText == SubstrLen(text1, 0, endIndex)
    IN  IF startIndex >= 0
        THEN [text |-> text1,
              counter |-> counter1 + Len(trigger),
              startIndex |-> startIndex,
              preSections |->
                  IF Len(hashtagText) > 0
                  THEN Append(st.preSections,
                              [offset |-> counter1,
                               length |-> Len(hashtagText) + Len(trigger),
                               key |-> Undefined,
                               type |-> "HASHTAG"])
                  ELSE st.preSections]
        ELSE [st EXCEPT !.startIndex = startIndex]

RECURSIVE HashLoop(_, _)
HashLoop(st, hashConfig) ==
    IF HashContinues(st) THEN HashLoop(HashStep(st, hashConfig), hashConfig)
    ELSE st.preSections

getHashtagRanges(text, hashConfig) == HashLoop(HashInit(text), hashConfig)

-----------------------------------------------------------------------------
(* Range segmenter: getSections. *)

\* Array.prototype.sort((s1, s2) => s1.offset - s2.offset): stable, ascending
RECURSIVE InsertByOffset(_, _)
InsertByOffset(sorted, r) ==
    IF sorted = <<>> THEN <<r>>
    ELSE IF sorted[Len(sorted)].offset <= r.offset THEN Append(sorted, r)
    ELSE Append(InsertByOffset(SubSeq(sorted, 1, Len(sorted) - 1), r),
                sorted[Len(sorted)])

RECURSIVE SortByOffset(_)
SortByOffset(rs) ==
    IF rs = <<>> THEN <<>>
    ELSE InsertByOffset(SortByOffset(SubSeq(rs, 1, Len(rs) - 1)), rs[Len(rs)])

\* the ENTITY pre-sections of block.entityRanges
RECURSIVE EntityPreSections(_)
EntityPreSections(entityRanges) ==
    IF entityRanges = <<>> THEN <<>>
    ELSE <<[offset |-> Head(entityRanges).offset,
            length |-> Head(entityRanges).length,
            key |-> Some(Head(entityRanges).key),
            type |-> "ENTITY"]>> \o EntityPreSections(Tail(entityRanges))

\* the forEach over the sorted ranges; acc is [sections, lastOffset]
RECURSIVE SectionWalk(_, _)
SectionWalk(ranges, acc) ==
    IF ranges = <<>> THEN acc
    ELSE LET r == Head(ranges)
             gap == IF r.offset > acc.lastOffset
                    THEN <<[start |-> acc.lastOffset, end |-> r.offset - 1,
                            entityKey |-> Undefined, type |-> "undefined"]>>
                    ELSE <<>>
             tagged == [start |-> r.offset, end |-> r.offset + r.length,
                        entityKey |-> r.key, type |-> r.type]
         IN  SectionWalk(Tail(ranges),
                         [sections |-> acc.sections \o gap \o <<tagged>>,
                          lastOffset |-> r.offset + r.length])

getSections(block, hashConfig) ==
    LET sectionRanges ==
            SortByOffset(EntityPreSections(block.entityRanges)
                         \o getHashtagRanges(block.text, hashConfig))
        walked == SectionWalk(sectionRanges, [sections |-> <<>>, lastOffset |-> 0])
    IN  IF walked.lastOffset < Len(block.text)
        THEN Append(walked.sections,
                    [start |-> walked.lastOffset, end |-> Len(block.text),
                     entityKey |-> Undefined, type |-> "undefined"])
        ELSE walked.sections

-----------------------------------------------------------------------------
(* Style materializer: getStyleArrayForBlock. *)

BOOLEAN_INLINE_STYLE_NAMES ==
    <<"SUBSCRIPT", "SUPERSCRIPT", "CODE", "STRIKETHROUGH", "UNDERLINE",
      "ITALIC", "BOLD", "BLOCKQUOTE", "CODE-BLOCK">>

STRING_INLINE_STYLE_NAMES == <<"COLOR", "BGCOLOR", "FONTSIZE", "FONTFAMILY", "RAWCSS">>

INLINE_STYLE_NAMES == BOOLEAN_INLINE_STYLE_NAMES \o STRING_INLINE_STYLE_NAMES

Range(seq) == {seq[i] : i \in DOMAIN seq}

\* the characters of each boolean style name, as a style token spells it
BooleanStyleToken ==
    [n \in Range(BOOLEAN_INLINE_STYLE_NAMES) |->
        CASE n = "SUBSCRIPT" -> <<"S", "U", "B", "S", "C", "R", "I", "P", "T">>
          [] n = "SUPERSCRIPT" -> <<"S", "U", "P", "E", "R", "S", "C", "R", "I", "P", "T">>
          [] n = "CODE" -> <<"C", "O", "D", "E">>
          [] n = "STRIKETHROUGH" -> <<"S", "T", "R", "I", "K", "E", "T", "H", "R", "O", "U", "G", "H">>
          [] n = "UNDERLINE" -> <<"U", "N", "D", "E", "R", "L", "I", "N", "E">>
          [] n = "ITALIC" -> <<"I", "T", "A", "L", "I", "C">>
          [] n = "BOLD" -> <<"B", "O", "L", "D">>
          [] n = "BLOCKQUOTE" -> <<"B", "L", "O", "C", "K", "Q", "U", "O", "T", "E">>
          [] n = "CODE-BLOCK" -> <<"C", "O", "D", "E", "-", "B", "L", "O", "C", "K">>]

\* the array slot (style name and value) one style token writes, or Undefined
\* when the token is ignored.  The style tokens of the model are no JSON
\* texts, so the RAWCSS branch of the source is never taken.
StyleSlotOf(style) ==
    IF StartsWith(style, <<"c", "o", "l", "o", "r", "-">>)
    THEN Some([name |-> "COLOR", value |-> Substr(style, 6)])
    ELSE IF StartsWith(style, <<"b", "g", "c", "o", "l", "o", "r", "-">>)
    THEN Some([name |-> "BGCOLOR", value |-> Substr(style, 8)])
    ELSE IF StartsWith(style, <<"f", "o", "n", "t", "s", "i", "z", "e", "-">>)
    THEN Some([name |-> "FONTSIZE", value |-> Substr(style, 9)])
    ELSE IF StartsWith(style, <<"f", "o", "n", "t", "f", "a", "m", "i", "l", "y", "-">>)
    THEN Some([name |-> "FONTFAMILY", value |-> Substr(style, 11)])
    ELSE IF \E n \in Range(BOOLEAN_INLINE_STYLE_NAMES) : BooleanStyleToken[n] = style
    THEN Some([name |-> CHOOSE n \in Range(BOOLEAN_INLINE_STYLE_NAMES) :
                            BooleanStyleToken[n] = style,
               value |-> TRUE])
    ELSE Undefined

\* the highest index any range writes, so that every array holds its writes
RECURSIVE MaxRangeEnd(_)
MaxRangeEnd(ranges) ==
    IF ranges = <<>> THEN 0
    ELSE Max(Head(ranges).offset + Head(ranges).length, MaxRangeEnd(Tail(ranges)))

\* the inner for loop writing only the indexes that hold no value yet
ApplyStyleRangeKeepFirst(arrays, r) ==
    LET slot == StyleSlotOf(r.style)
    IN  IF IsDefined(slot)
        THEN [arrays EXCEPT ![slot[1].name] =
                 [i \in DOMAIN @ |->
                     IF r.offset <= i /\ i < r.offset + r.length /\ ~IsDefined(@[i])
                     THEN Some(slot[1].value) ELSE @[i]]]
        ELSE arrays

\* the inner for loop of one inline style range
ApplyStyleRange(arrays, r) ==
    LET slot == StyleSlotOf(r.style)
    IN  IF IsDefined(slot)
        THEN [arrays EXCEPT ![slot[1].name] =
                 [i \in DOMAIN @ |->
                     IF r.offset <= i /\ i < r.offset + r.length
                     THEN Some(slot[1].value) ELSE @[i]]]
        ELSE arrays

\* inlineStyleRanges.forEach, in array order
RECURSIVE ApplyStyleRanges(_, _)
ApplyStyleRanges(arrays, ranges) ==
    IF ranges = <<>> THEN arrays
    ELSE ApplyStyleRanges(ApplyStyleRange(arrays, Head(ranges)), Tail(ranges))

getStyleArrayForBlock(block) ==
    LET n == Max(Len(block.text), MaxRangeEnd(block.inlineStyleRanges))
        empty == [name \in Range(INLINE_STYLE_NAMES) |-> [i \in 0..(n - 1) |-> Undefined]]
    IN  [arrays |-> ApplyStyleRanges(empty, block.inlineStyleRanges),
         length |-> Len(block.text)]

\* inlineStyles[key][index]; an index outside the array reads undefined
StyleAt(inlineStyles, key, index) ==
    IF index \in DOMAIN inlineStyles.arrays[key]
    THEN inlineStyles.arrays[key][index] ELSE Undefined

-----------------------------------------------------------------------------
(* Style segmenter: sameStyleAsPrevious, getStylesAtOffset, getStyleSections. *)

sameStyleAsPrevious(inlineStyles, matchKeys, index) ==
    IF index > 0 /\ index < inlineStyles.length
    THEN \A k \in DOMAIN matchKeys :
            StyleAt(inlineStyles, matchKeys[k], index)
                = StyleAt(inlineStyles, matchKeys[k], index - 1)
    ELSE FALSE

\* JavaScript truthiness of an array slot: true, or a non-empty string
Truthy(key, slot) ==
    /\ IsDefined(slot)
    /\ key \in Range(STRING_INLINE_STYLE_NAMES) => Len(slot[1]) > 0

\* the entries [key, value] of the snapshot object, in INLINE_STYLE_NAMES order
RECURSIVE StylesAtOffsetFrom(_, _, _)
StylesAtOffsetFrom(inlineStyles, offset, k) ==
    IF k > Len(INLINE_STYLE_NAMES) THEN <<>>
    ELSE LET key == INLINE_STYLE_NAMES[k]
             slot == StyleAt(inlineStyles, key, offset)
         IN  (IF Truthy(key, slot) THEN <<[key |-> key, value |-> slot[1]]>> ELSE <<>>)
             \o StylesAtOffsetFrom(inlineStyles, offset, k + 1)

getStylesAtOffset(inlineStyles, offset) == StylesAtOffsetFrom(inlineStyles, offset, 1)

\* text[i]: the character at offset i, undefined past the end of the text
CharAt(text, i) == IF i >= 0 /\ i < Len(text) THEN Some(text[i + 1]) ELSE Undefined

\* the for loop of getStyleSections from index i on
RECURSIVE StyleSectionLoop(_, _, _, _, _, _)
StyleSectionLoop(text, inlineStyles, matchKeys, start, end, i) ==
    IF i < start \/ i >= end THEN <<>>
    ELSE IF i = start
    THEN <<[styles |-> getStylesAtOffset(inlineStyles, i),
            text |-> <<CharAt(text, i)>>,
            start |-> i,
            end |-> i + 1]>>
    ELSE LET before == StyleSectionLoop(text, inlineStyles, matchKeys, start, end, i - 1)
             last == before[Len(before)]
         IN  IF sameStyleAsPrevious(inlineStyles, matchKeys, i)
             THEN [before EXCEPT ![Len(before)] =
                     [last EXCEPT !.text = Append(last.text, CharAt(text, i)),
                                  !.end = i + 1]]
             ELSE before

getStyleSections(block, matchKeys, start, end) ==
    IF Len(block.text) > 0 /\ start < end
    THEN StyleSectionLoop(block.text, getStyleArrayForBlock(block), matchKeys,
                          start, end, end - 1)
    ELSE <<>>

-----------------------------------------------------------------------------
(* Markup composer. *)

\* the replacement of one element of a style section's text array; an
\* undefined element stays undefined and joins as the empty string
EscapeChar(slot) ==
    IF ~IsDefined(slot) THEN <<>>
    ELSE CASE slot[1] = "\n" -> <<"\\", "s", "\\", "s", "\n">>
           [] slot[1] = "&" -> <<"&", "a", "m", "p", ";">>
           [] slot[1] = "<" -> <<"&", "l", "t", ";">>
           [] slot[1] = ">" -> <<"&", "g", "t", ";">>
           [] OTHER -> <<slot[1]>>

RECURSIVE getSectionText(_)
getSectionText(text) ==
    IF text = <<>> THEN <<>> ELSE EscapeChar(Head(text)) \o getSectionText(Tail(text))

\* a style token pair; a string token is the pair of it with itself
Pair(left, right) == [left |-> left, right |-> right]

\* the styleTransform table of getSectionMarkdown before the override is spread
DefaultStyleTransform ==
    [n \in Range(BOOLEAN_INLINE_STYLE_NAMES) |->
        CASE n = "BOLD" -> Some(Pair(<<"*", "*">>, <<"*", "*">>))
          [] n = "ITALIC" -> Some(Pair(<<"*">>, <<"*">>))
          [] n = "UNDERLINE" -> Some(Pair(<<"_", "_">>, <<"_", "_">>))
          [] n = "STRIKETHROUGH" -> Some(Pair(<<"~", "~">>, <<"~", "~">>))
          [] n = "CODE" -> Some(Pair(<<Backquote>>, <<Backquote>>))
          [] n = "CODE-BLOCK" -> Some(Pair(<<Backquote, Backquote, Backquote, "\n">>, <<"\n", Backquote, Backquote, Backquote>>))
          [] n = "BLOCKQUOTE" -> Some(Pair(<<">", " ">>, <<>>))
          [] n = "SUPERSCRIPT" -> Some(Pair(<<"<", "s", "u", "p", ">">>, <<"<", "/", "s", "u", "p", ">">>))
          [] n = "SUBSCRIPT" -> Some(Pair(<<"<", "s", "u", "b", ">">>, <<"<", "/", "s", "u", "b", ">">>))]

\* {...defaults, ...override}: the override's keys win
Spread(defaults, override) ==
    [k \in DOMAIN defaults \cup DOMAIN override |->
        IF k \in DOMAIN override THEN override[k] ELSE defaults[k]]

addInlineStyleMarkdown(style, content, styleTransform) ==
    IF style \notin DOMAIN styleTransform \/ ~IsDefined(styleTransform[style])
    THEN content
    ELSE styleTransform[style][1].left \o content \o styleTransform[style][1].right

\* styles.reduce(addInlineStyleMarkdown, text), styles the keys of a snapshot
RECURSIVE getStyleTagSectionMarkdown(_, _, _)
getStyleTagSectionMarkdown(styles, text, styleTransform) ==
    IF styles = <<>> THEN text
    ELSE getStyleTagSectionMarkdown(
             Tail(styles),
             addInlineStyleMarkdown(Head(styles).key, text, styleTransform),
             styleTransform)

\* styles[styleName] of a snapshot: the value, or undefined
StyleValue(styles, styleName) ==
    IF \E k \in DOMAIN styles : styles[k].key = styleName
    THEN Some(styles[CHOOSE k \in DOMAIN styles : styles[k].key = styleName].value)
    ELSE Undefined

\* what one string style adds to styleString and to extra
StyleProperty(styleName, style) ==
    CASE styleName = "COLOR" ->
            [css |-> <<"c", "o", "l", "o", "r", ":", " ">> \o style \o <<";">>, extra |-> <<" ", "d", "a", "t", "a", "-", "c", "o", "l", "o", "r", "=", "\"", "t", "r", "u", "e", "\"">>]
      [] styleName = "BGCOLOR" ->
            [css |-> <<"b", "a", "c", "k", "g", "r", "o", "u", "n", "d", "-", "c", "o", "l", "o", "r", ":", " ">> \o style \o <<";">>,
             extra |-> <<" ", "d", "a", "t", "a", "-", "b", "g", "c", "o", "l", "o", "r", "=", "\"", "t", "r", "u", "e", "\"">>]
      [] styleName = "FONTSIZE" ->
            [css |-> <<"f", "o", "n", "t", "-", "s", "i", "z", "e", ":", " ">> \o style \o <<"p", "x", ";">>,
             extra |-> <<" ", "d", "a", "t", "a", "-", "f", "o", "n", "t", "s", "i", "z", "e", "=", "\"", "t", "r", "u", "e", "\"">>]
      [] styleName = "FONTFAMILY" ->
            [css |-> <<"f", "o", "n", "t", "-", "f", "a", "m", "i", "l", "y", ":", " ">> \o style \o <<";">>,
             extra |-> <<" ", "d", "a", "t", "a", "-", "f", "o", "n", "t", "f", "a", "m", "i", "l", "y", "=", "\"", "t", "r", "u", "e", "\"">>]
      [] styleName = "RAWCSS" ->
            [css |-> style, extra |-> <<" ", "d", "a", "t", "a", "-", "r", "a", "w", "c", "s", "s", "=", "\"", "t", "r", "u", "e", "\"">>]

\* the for loop over STRING_INLINE_STYLE_NAMES from the k-th name on
RECURSIVE StylePropertiesFrom(_, _)
StylePropertiesFrom(styles, k) ==
    IF k > Len(STRING_INLINE_STYLE_NAMES) THEN [css |-> <<>>, extra |-> <<>>]
    ELSE LET styleName == STRING_INLINE_STYLE_NAMES[k]
             style == StyleValue(styles, styleName)
             rest == StylePropertiesFrom(styles, k + 1)
         IN  IF ~IsDefined(style) THEN rest
             ELSE [css |-> StyleProperty(styleName, style[1]).css \o rest.css,
                   extra |-> StyleProperty(styleName, style[1]).extra \o rest.extra]

addStylePropertyMarkdown(styleSection) ==
    LET content == getSectionText(styleSection.text)
        props == StylePropertiesFrom(styleSection.styles, 1)
    IN  IF styleSection.styles = <<>> THEN content
        ELSE IF \A i \in DOMAIN props.css : props.css[i] = ";" THEN content
        ELSE <<"<", "s", "p", "a", "n", " ", "s", "t", "y", "l", "e", "=", "\"">> \o props.css \o <<"\"">> \o props.extra \o <<">">>
             \o content \o <<"<", "/", "s", "p", "a", "n", ">">>

-----------------------------------------------------------------------------
(* Entity renderer: getEntityMarkdown. *)

\* the decimal digits of a number, as a template literal prints it
RECURSIVE NatToString(_)
NatToString(n) ==
    LET digit == <<"0", "1", "2", "3", "4", "5", "6", "7", "8", "9">>[(n % 10) + 1]
    IN  IF n < 10 THEN <<digit>> ELSE NatToString(n \div 10) \o <<digit>>

\* The caller's customEntityTransform.  "absent" is no function; the others
\* are functions: "undefined" returns undefined for every entity, "empty"
\* the empty string for every entity, "links" a tag around the text for a
\* LINK and undefined otherwise, "all" the text in braces for every entity.
CustomEntityTransforms == {"absent", "undefined", "empty", "links", "all"}

IsFunction(customEntityTransform) == customEntityTransform # "absent"

CallCustomEntityTransform(customEntityTransform, entity, text) ==
    CASE customEntityTransform = "undefined" -> Undefined
      [] customEntityTransform = "empty" -> Some(<<>>)
      [] customEntityTransform = "links" ->
            IF entity.type = "LINK" THEN Some(<<"<", "a", ">">> \o text \o <<"<", "/", "a", ">">>)
            ELSE Undefined
      [] customEntityTransform = "all" -> Some(<<"{">> \o text \o <<"}">>)

\* the switch on entity.type
BuiltinEntityMarkdown(entity, text) ==
    CASE entity.type \in {"LINK", "MENTION"} ->
            <<"[">> \o text \o <<"]", "(">> \o entity.data.url \o <<")">>
      [] entity.type = "IMAGE" ->
            <<"!", "[">> \o (IF IsDefined(entity.data.alt) THEN entity.data.alt[1] ELSE <<>>)
                \o <<"]", "(">> \o entity.data.src \o <<")">>
      [] entity.type = "EMBEDDED_LINK" ->
            <<"<", "i", "f", "r", "a", "m", "e", " ", "w", "i", "d", "t", "h", "=", "\"">> \o NatToString(entity.data.width)
                \o <<"\"", " ", "h", "e", "i", "g", "h", "t", "=", "\"">> \o NatToString(entity.data.height)
                \o <<"\"", " ", "s", "r", "c", "=", "\"">> \o entity.data.src
                \o <<"\"", " ", "f", "r", "a", "m", "e", "B", "o", "r", "d", "e", "r", "=", "\"", "0", "\"", " ", "a", "l", "l", "o", "w", "F", "u", "l", "l", "S", "c", "r", "e", "e", "n", " ", "/", ">">>
      [] OTHER -> text

\* whether the override decides the rendering: it is a function and returns
\* a defined string
OverrideWins(customEntityTransform, entity, text) ==
    /\ IsFunction(customEntityTransform)
    /\ IsDefined(CallCustomEntityTransform(customEntityTransform, entity, text))

\* getEntityMarkdown with the switch first: the override is asked only for a
\* type the switch does not know
getEntityMarkdownBuiltinFirst(entity, text, customEntityTransform) ==
    IF entity.type \in {"LINK", "MENTION", "IMAGE", "EMBEDDED_LINK"}
    THEN BuiltinEntityMarkdown(entity, text)
    ELSE IF OverrideWins(customEntityTransform, entity, text)
    THEN CallCustomEntityTransform(customEntityTransform, entity, text)[1]
    ELSE text

getEntityMarkdown(entity, text, customEntityTransform) ==
    IF OverrideWins(customEntityTransform, entity, text)
    THEN CallCustomEntityTransform(customEntityTransform, entity, text)[1]
    ELSE BuiltinEntityMarkdown(entity, text)

-----------------------------------------------------------------------------
(* Section renderer: getSectionMarkdown. *)

\* the keys of config.customStyleTransform the model's callers pass
CustomStyleTransforms ==
    {<<>>, [n \in {"BOLD"} |-> Some(Pair(<<"<", "b", ">">>, <<"<", "/", "b", ">">>))]}

\* stylePropertySections.forEach: the concatenated string-style runs
RECURSIVE StylePropertySectionsText(_)
StylePropertySectionsText(stylePropertySections) ==
    IF stylePropertySections = <<>> THEN <<>>
    ELSE addStylePropertyMarkdown(Head(stylePropertySections))
         \o StylePropertySectionsText(Tail(stylePropertySections))

\* styleSections.forEach: the concatenated boolean-style runs
RECURSIVE StyleSectionsText(_, _, _)
StyleSectionsText(block, styleSections, styleTransform) ==
    IF styleSections = <<>> THEN <<>>
    ELSE LET styleSection == Head(styleSections)
             stylePropertySections ==
                 getStyleSections(block, STRING_INLINE_STYLE_NAMES,
                                  styleSection.start, styleSection.end)
         IN  getStyleTagSectionMarkdown(
                 styleSection.styles,
                 StylePropertySectionsText(stylePropertySections),
                 styleTransform)
             \o StyleSectionsText(block, Tail(styleSections), styleTransform)

getSectionMarkdown(block, entityMap, section, customEntityTransform, config) ==
    LET styleTransform == Spread(DefaultStyleTransform, config.customStyleTransform)
        styleSections ==
            getStyleSections(block, BOOLEAN_INLINE_STYLE_NAMES, section.start, section.end)
        sectionText == StyleSectionsText(block, styleSections, styleTransform)
    IN  IF section.type = "ENTITY"
        THEN IF IsDefined(section.entityKey)
             THEN getEntityMarkdown(entityMap[section.entityKey[1]], sectionText,
                                    customEntityTransform)
             ELSE sectionText
        ELSE IF section.type = "HASHTAG"
        THEN <<"[">> \o sectionText \o <<"]", "(">> \o sectionText \o <<")">>
        ELSE sectionText

-----------------------------------------------------------------------------
(* Block assembler. *)

\* isAtomicBlock without the trim of isEmptyString: only a text of length
\* zero counts as empty
isAtomicBlockZeroLength(block) == Len(block.entityRanges) > 0 /\ Len(block.text) = 0

isAtomicBlock(block) == Len(block.entityRanges) > 0 /\ isEmptyString(block.text)

Nbsp == <<"&", "n", "b", "s", "p", ";">>

\* String.prototype.replace(' ', '&nbsp;'): the first space only
ReplaceFirstSpace(s) ==
    LET at == IndexOf(s, <<" ">>)
    IN  IF at < 0 THEN s ELSE SubstrLen(s, 0, at) \o Nbsp \o Substr(s, at + 1)

\* the for loop of trimLeadingZeros from index i on
RECURSIVE LeadingLoop(_, _, _)
LeadingLoop(sectionText, replacedText, i) ==
    IF i < Len(replacedText) /\ CharAt(sectionText, i) = Some(" ")
    THEN LeadingLoop(sectionText, ReplaceFirstSpace(replacedText), i + 1)
    ELSE replacedText

trimLeadingZeros(sectionText) == LeadingLoop(sectionText, sectionText, 0)

\* the for loop of trimTrailingZeros from index i down
RECURSIVE TrailingLoop(_, _)
TrailingLoop(replacedText, i) ==
    IF i >= 0 /\ CharAt(replacedText, i) = Some(" ")
    THEN TrailingLoop(SubstrLen(replacedText, 0, i) \o Nbsp \o Substr(replacedText, i + 1),
                      i - 1)
    ELSE replacedText

trimTrailingZeros(sectionText) == TrailingLoop(sectionText, Len(sectionText) - 1)

\* what entitySections.forEach does to the rendering of the section at index
\* (0-based) of count sections
TrimSection(sectionText, index, count) ==
    IF index = 0 THEN trimLeadingZeros(sectionText)
    ELSE IF index = count - 1 THEN trimTrailingZeros(sectionText)
    ELSE sectionText

\* entitySections.forEach from the k-th (1-based) section on
RECURSIVE SectionsMarkdownFrom(_, _, _, _, _, _)
SectionsMarkdownFrom(block, entityMap, sections, customEntityTransform, config, k) ==
    IF k > Len(sections) THEN <<>>
    ELSE TrimSection(getSectionMarkdown(block, entityMap, sections[k],
                                        customEntityTransform, config),
                     k - 1, Len(sections))
         \o SectionsMarkdownFrom(block, entityMap, sections, customEntityTransform,
                                 config, k + 1)

getBlockContentMarkdown(block, entityMap, hashConfig, customEntityTransform, config) ==
    IF isAtomicBlock(block)
    THEN getEntityMarkdown(entityMap[block.entityRanges[1].key], <<>>,
                           customEntityTransform)
    ELSE SectionsMarkdownFrom(block, entityMap, getSections(block, hashConfig),
                              customEntityTransform, config, 1)

defaultBlockTypesMapping ==
    [t \in {"unstyled", "header-one", "header-two", "header-three", "header-four",
            "header-five", "header-six", "unordered-list-item", "ordered-list-item",
            "blockquote", "code"} |->
        CASE t = "unstyled" -> <<>>
          [] t = "header-one" -> <<"#", " ">>
          [] t = "header-two" -> <<"#", "#", " ">>
          [] t = "header-three" -> <<"#", "#", "#", " ">>
          [] t = "header-four" -> <<"#", "#", "#", "#", " ">>
          [] t = "header-five" -> <<"#", "#", "#", "#", "#", " ">>
          [] t = "header-six" -> <<"#", "#", "#", "#", "#", "#", " ">>
          [] t = "unordered-list-item" -> <<"-", " ">>
          [] t = "ordered-list-item" -> <<"1", ".", " ">>
          [] t = "blockquote" -> <<">", " ">>
          [] t = "code" -> <<" ", " ", " ", " ">>]

\* the block-type prefix pushed first, empty for an unmapped type
BlockPrefix(block, blockTypesMapping) ==
    IF block.type \in DOMAIN blockTypesMapping THEN blockTypesMapping[block.type]
    ELSE <<>>

\* the separator pushed after the block's content
BlockSeparator(config) ==
    IF config.emptyLineBeforeBlock
    THEN (IF config.printBreakLineLiteral THEN <<"\\", "n", "\n", "\n">> ELSE <<"\n", "\n">>)
    ELSE (IF config.printBreakLineLiteral THEN <<"\\", "n">> ELSE <<"\n">>)

getBlockMarkdown(block, blockTypesMapping, entityMap, hashConfig, customEntityTransform, config) ==
    BlockPrefix(block, blockTypesMapping)
    \o getBlockContentMarkdown(block, entityMap, hashConfig, customEntityTransform, config)
    \o BlockSeparator(config)

-----------------------------------------------------------------------------
(* Document driver: draftToMarkdown. *)

\* the spaces of one level of list nesting
IndentWidth == 4

\* getDepthPadding with two spaces for each level
getDepthPaddingTwoSpaces(depth) == Repeat(<<" ">>, depth * 2)

getDepthPadding(depth) == Repeat(<<" ">>, depth * IndentWidth)

\* hashConfig.trigger ?? '#' and hashConfig.separator ?? ' '
FullHashConfig(hashConfig) ==
    [trigger |-> IF IsDefined(hashConfig.trigger) THEN hashConfig.trigger[1]
                 ELSE DefaultTrigger,
     separator |-> IF IsDefined(hashConfig.separator) THEN hashConfig.separator[1]
                   ELSE DefaultSeparator]

\* what blocks.forEach pushes for one block
BlockContribution(block, blockTypesMapping, entityMap, hashConfig, customEntityTransform, config) ==
    LET content == getBlockMarkdown(block, blockTypesMapping, entityMap, hashConfig,
                                    customEntityTransform, config)
    IN  IF isList(block.type) THEN getDepthPadding(block.depth) \o content ELSE content

\* blocks.forEach with markdown.join('\n'): a newline between the blocks
RECURSIVE BlocksMarkdownJoinNewline(_, _, _, _, _, _)
BlocksMarkdownJoinNewline(blocks, blockTypesMapping, entityMap, hashConfig, customEntityTransform, config) ==
    IF blocks = <<>> THEN <<>>
    ELSE BlockContribution(Head(blocks), blockTypesMapping, entityMap, hashConfig,
                           customEntityTransform, config)
         \o (IF Tail(blocks) = <<>> THEN <<>> ELSE <<"\n">>)
         \o BlocksMarkdownJoinNewline(Tail(blocks), blockTypesMapping, entityMap,
                                      hashConfig, customEntityTransform, config)

\* blocks.forEach and markdown.join('')
RECURSIVE BlocksMarkdown(_, _, _, _, _, _)
BlocksMarkdown(blocks, blockTypesMapping, entityMap, hashConfig, customEntityTransform, config) ==
    IF blocks = <<>> THEN <<>>
    ELSE BlockContribution(Head(blocks), blockTypesMapping, entityMap, hashConfig,
                           customEntityTransform, config)
         \o BlocksMarkdown(Tail(blocks), blockTypesMapping, entityMap, hashConfig,
                           customEntityTransform, config)

\* A call returns [threw |-> FALSE, value |-> the string] or, when reading a
\* property of undefined raises a TypeError, [threw |-> TRUE, value |-> <<>>].
Returned(value) == [threw |-> FALSE, value |-> value]

Threw == [threw |-> TRUE, value |-> <<>>]

\* hashConfig is an optional record of optional fields; editorContent.blocks
\* is an optional array
draftToMarkdown(editorContent, hashConfig, customEntityTransform, config) ==
    IF ~IsDefined(hashConfig) THEN Threw
    ELSE LET fullHashConfig == FullHashConfig(hashConfig[1])
             blockTypesMapping == Spread(defaultBlockTypesMapping, config.blockTypesMapping)
         IN  IF IsDefined(editorContent.blocks)
             THEN Returned(BlocksMarkdown(editorContent.blocks[1], blockTypesMapping,
                                          editorContent.entityMap, fullHashConfig,
                                          customEntityTransform, config))
             ELSE Returned(<<>>)

-----------------------------------------------------------------------------
(* The arguments the caller draws from. *)

\* the characters of block texts: a letter, the space, the default trigger
Alphabet == {"a", " ", "#"}

\* every string over chars of length at most n
StringsUpTo(chars, n) == UNION {[1..k -> chars] : k \in 0..n}

Texts == StringsUpTo(Alphabet, MaxLen)

\* the example text of the specification's hashtag detection
HelloWorldFoo == <<"h", "e", "l", "l", "o", " ", "#", "w", "o", "r", "l", "d", " ", "f", "o", "o">>

\* the texts of the hashtag scan
HashTexts == StringsUpTo(Alphabet, MaxHashLen) \cup {HelloWorldFoo}

DefaultHashConfig == [trigger |-> DefaultTrigger, separator |-> DefaultSeparator]

\* hash configs with a non-empty trigger and a non-empty separator
HashConfigs ==
    {[trigger |-> t, separator |-> s] : t \in {<<"#">>, <<"#", "#">>}, s \in {<<" ">>, <<"a">>}}

Block(text, type, depth, entityRanges, inlineStyleRanges) ==
    [text |-> text, type |-> type, depth |-> depth,
     entityRanges |-> entityRanges, inlineStyleRanges |-> inlineStyleRanges]

\* the non-empty intervals [offset, offset + length) inside a text of length n
Intervals(n) ==
    {[offset |-> o, length |-> l] : o \in 0..(n - 1), l \in 1..n} \cap
    {r \in [offset : 0..n, length : 0..n] : r.offset + r.length <= n}

EntityRange(r, key) == [offset |-> r.offset, length |-> r.length, key |-> key]

\* the entity map of every call: one entity of each built-in type, an IMAGE
\* without alt, and an entity of a type the renderer does not know
SampleEntityMap ==
    [k \in 0..5 |->
        CASE k = 0 -> [type |-> "LINK", data |-> [url |-> <<"u">>]]
          [] k = 1 -> [type |-> "MENTION", data |-> [url |-> <<"m">>]]
          [] k = 2 -> [type |-> "IMAGE", data |-> [src |-> <<"x", ".", "p", "n", "g">>, alt |-> Some(<<"y">>)]]
          [] k = 3 -> [type |-> "IMAGE", data |-> [src |-> <<"i">>, alt |-> Undefined]]
          [] k = 4 -> [type |-> "EMBEDDED_LINK",
                       data |-> [width |-> 10, height |-> 20, src |-> <<"e">>]]
          [] k = 5 -> [type |-> "HR", data |-> <<>>]]

\* the entity keys block entity ranges refer to
RangeKeys == {0, 2, 5}

\* well-formed entity ranges of a text: inside the text, ascending, disjoint;
\* an empty text has the zero-length range at 0
EntityRangeLists(text) ==
    LET ivs == IF text = <<>> THEN {[offset |-> 0, length |-> 0]}
               ELSE Intervals(Len(text))
    IN  {<<>>}
        \cup {<<EntityRange(r, k)>> : r \in ivs, k \in RangeKeys}
        \cup {<<EntityRange(p[1], 0), EntityRange(p[2], 2)>> :
                 p \in {q \in ivs \X ivs : q[1].offset + q[1].length <= q[2].offset}}

\* blocks with entity ranges and no inline styles
EntityBlocks ==
    UNION {{Block(text, "unstyled", 0, ers, <<>>) : ers \in EntityRangeLists(text)} :
              text \in Texts}

\* the style tokens of inline style ranges: a boolean style, two values of one
\* string style, and a token no branch recognizes
StyleTokens == {<<"B", "O", "L", "D">>, <<"c", "o", "l", "o", "r", "-", "r", "e", "d">>, <<"c", "o", "l", "o", "r", "-", "b", "l", "u", "e">>, <<"H", "I", "G", "H", "L", "I", "G", "H", "T">>}

StyleRange(r, style) == [offset |-> r.offset, length |-> r.length, style |-> style]

\* inline style ranges of a text of length n: none, one, or two in either order
StyleRangeLists(n) ==
    LET rs == {StyleRange(r, s) : r \in Intervals(n), s \in StyleTokens}
    IN  {<<>>} \cup {<<r>> : r \in rs} \cup {<<r1, r2>> : r1 \in rs, r2 \in rs}

\* the text of a styled block of length n: letters only
LetterText(n) == [i \in 1..n |-> IF i % 2 = 1 THEN "a" ELSE "b"]

\* blocks with inline styles and no entity ranges
StyledBlocks ==
    UNION {{Block(LetterText(n), "unstyled", 0, <<>>, srs) : srs \in StyleRangeLists(n)} :
              n \in 1..MaxLen}

\* the configuration with every option absent
DefaultConfig ==
    [customStyleTransform |-> <<>>, emptyLineBeforeBlock |-> FALSE,
     printBreakLineLiteral |-> FALSE, blockTypesMapping |-> <<>>]

\* the configurations of the block separator
Configs ==
    {[DefaultConfig EXCEPT !.emptyLineBeforeBlock = e, !.printBreakLineLiteral = p] :
        e \in BOOLEAN, p \in BOOLEAN}

\* the configurations of the style-token table
StyleConfigs ==
    {[DefaultConfig EXCEPT !.customStyleTransform = c] : c \in CustomStyleTransforms}

\* the calls of getBlockContentMarkdown: [block, customEntityTransform, config]
ContentCalls ==
    {[block |-> b, customEntityTransform |-> c, config |-> DefaultConfig] :
        b \in EntityBlocks, c \in {"absent", "links"}}
    \cup {[block |-> b, customEntityTransform |-> "absent", config |-> c] :
             b \in StyledBlocks, c \in StyleConfigs}

\* the texts, types and depths of the blocks of documents
DocTexts == {<<"x">>, <<"#", "a">>, <<"@", "a">>}

DocBlockTypes ==
    {"unstyled", "header-one", "unordered-list-item", "ordered-list-item", "custom"}

DocBlocks ==
    {Block(text, type, depth, <<>>, <<>>) :
        text \in DocTexts, type \in DocBlockTypes, depth \in 0..MaxDepth}

\* the hashConfig argument: absent, empty, or with either field or both
HashConfigArgs ==
    {Undefined} \cup
    {Some([trigger |-> t, separator |-> s]) :
        t \in {Undefined, Some(<<"@">>)}, s \in {Undefined, Some(<<"a">>)}}

\* the hashConfig a caller passes to a scan followed step by step: each field
\* absent, the empty string, or one character
ScanHashConfigArgs ==
    {[trigger |-> t, separator |-> s] :
        t \in {Undefined, Some(<<>>), Some(<<"#">>)},
        s \in {Undefined, Some(<<>>), Some(<<"a">>)}}

EditorContent(blocks) == [blocks |-> blocks, entityMap |-> SampleEntityMap]

\* blocks of documents with entity ranges, inline styles and list nesting
RichBlocks ==
    {Block(<<"a", "b">>, "unstyled", 0, <<EntityRange([offset |-> 0, length |-> 1], 0)>>, <<>>),
     Block(<<"a", "b">>, "header-one", 0, <<>>,
           <<StyleRange([offset |-> 0, length |-> 2], <<"B", "O", "L", "D">>)>>),
     Block(<<"x">>, "ordered-list-item", 1, <<>>, <<>>),
     Block(<<"@", "a">>, "unordered-list-item", 2, <<>>, <<>>)}

\* the calls of draftToMarkdown: documents of at most one block under every
\* hashConfig and separator configuration, documents of two blocks under the
\* defaults, documents of three blocks with and without a trigger of the caller
DraftCalls ==
    {[editorContent |-> EditorContent(bs), hashConfig |-> h, config |-> c] :
        bs \in {Undefined, Some(<<>>)} \cup {Some(<<b>>) : b \in DocBlocks},
        h \in HashConfigArgs, c \in Configs}
    \cup {[editorContent |-> EditorContent(Some(<<b1, b2>>)),
           hashConfig |-> Some([trigger |-> Undefined, separator |-> Undefined]),
           config |-> DefaultConfig] :
             b1 \in DocBlocks, b2 \in DocBlocks}
    \cup {[editorContent |-> EditorContent(Some(<<b1, b2, b3>>)),
           hashConfig |-> Some([trigger |-> t, separator |-> Undefined]),
           config |-> DefaultConfig] :
             b1 \in RichBlocks, b2 \in RichBlocks, b3 \in RichBlocks,
             t \in {Undefined, Some(<<"@">>)}}

-----------------------------------------------------------------------------
(* The caller. *)

Init == op = "idle" /\ args = <<>> /\ ret = <<>> /\ path = "none"

CallGetHashtagRanges ==
    /\ op = "idle"
    /\ \E text \in HashTexts, hashConfig \in HashConfigs :
          /\ op' = "getHashtagRanges"
          /\ args' = [text |-> text, hashConfig |-> hashConfig]
          /\ ret' = getHashtagRanges(text, hashConfig)
    /\ UNCHANGED path

CallGetSections ==
    /\ op = "idle"
    /\ \E block \in EntityBlocks :
          /\ op' = "getSections"
          /\ args' = [block |-> block, hashConfig |-> DefaultHashConfig]
          /\ ret' = getSections(block, DefaultHashConfig)
    /\ UNCHANGED path

CallGetStyleArrayForBlock ==
    /\ op = "idle"
    /\ \E block \in StyledBlocks :
          /\ op' = "getStyleArrayForBlock"
          /\ args' = [block |-> block]
          /\ ret' = getStyleArrayForBlock(block)
    /\ UNCHANGED path

CallGetStyleSections ==
    /\ op = "idle"
    /\ \E block \in StyledBlocks,
          matchKeys \in {BOOLEAN_INLINE_STYLE_NAMES, STRING_INLINE_STYLE_NAMES} :
          \E start \in 0..(Len(block.text) - 1) :
             \E end \in (start + 1)..Len(block.text) :
                /\ op' = "getStyleSections"
                /\ args' = [block |-> block, matchKeys |-> matchKeys,
                            start |-> start, end |-> end]
                /\ ret' = getStyleSections(block, matchKeys, start, end)
    /\ UNCHANGED path

CallGetEntityMarkdown ==
    /\ op = "idle"
    /\ \E key \in DOMAIN SampleEntityMap, text \in Texts,
          customEntityTransform \in CustomEntityTransforms :
          /\ op' = "getEntityMarkdown"
          /\ args' = [entity |-> SampleEntityMap[key], text |-> text,
                      customEntityTransform |-> customEntityTransform]
          /\ ret' = getEntityMarkdown(SampleEntityMap[key], text, customEntityTransform)
    /\ UNCHANGED path

\* path records the branch the call takes: the atomic short-circuit or the
\* rendering from sections
CallGetBlockContentMarkdown ==
    /\ op = "idle"
    /\ \E call \in ContentCalls :
          /\ op' = "getBlockContentMarkdown"
          /\ args' = [block |-> call.block, entityMap |-> SampleEntityMap,
                      hashConfig |-> DefaultHashConfig,
                      customEntityTransform |-> call.customEntityTransform,
                      config |-> call.config]
          /\ ret' = getBlockContentMarkdown(call.block, SampleEntityMap, DefaultHashConfig,
                                            call.customEntityTransform, call.config)
          /\ path' = IF isAtomicBlock(call.block) THEN "atomic" ELSE "sections"

CallGetBlockMarkdown ==
    /\ op = "idle"
    /\ \E block \in DocBlocks, config \in Configs :
          /\ op' = "getBlockMarkdown"
          /\ args' = [block |-> block, blockTypesMapping |-> defaultBlockTypesMapping,
                      config |-> config]
          /\ ret' = getBlockMarkdown(block, defaultBlockTypesMapping, SampleEntityMap,
                                     DefaultHashConfig, "absent", config)
    /\ UNCHANGED path

CallDraftToMarkdown ==
    /\ op = "idle"
    /\ \E call \in DraftCalls :
          /\ op' = "draftToMarkdown"
          /\ args' = call
          /\ ret' = draftToMarkdown(call.editorContent, call.hashConfig, "absent",
                                    call.config)
    /\ UNCHANGED path

\* The loop of getHashtagRanges, one iteration at a time, under the hash
\* config draftToMarkdown builds from the caller's: ret holds the loop's
\* variables and path tells whether the loop is running or has returned.
StartHashtagScan ==
    /\ op = "idle"
    /\ \E text \in HashTexts, hashConfig \in ScanHashConfigArgs :
          /\ op' = "hashtagScan"
          /\ args' = [text |-> text, hashConfig |-> FullHashConfig(hashConfig)]
          /\ ret' = HashInit(text)
    /\ path' = "loop"

HashtagScanStep ==
    /\ op = "hashtagScan"
    /\ path = "loop"
    /\ HashContinues(ret)
    /\ Len(ret.preSections) < MaxScanRanges
    /\ ret' = HashStep(ret, args.hashConfig)
    /\ UNCHANGED <<op, args, path>>

HashtagScanReturn ==
    /\ op = "hashtagScan"
    /\ path = "loop"
    /\ ~HashContinues(ret)
    /\ path' = "returned"
    /\ UNCHANGED <<op, args, ret>>

Next ==
    \/ CallGetHashtagRanges
    \/ CallGetSections
    \/ CallGetStyleArrayForBlock
    \/ CallGetStyleSections
    \/ CallGetEntityMarkdown
    \/ CallGetBlockContentMarkdown
    \/ CallGetBlockMarkdown
    \/ CallDraftToMarkdown
    \/ StartHashtagScan
    \/ HashtagScanStep
    \/ HashtagScanReturn

Spec == Init /\ [][Next]_vars

-----------------------------------------------------------------------------
(* Section coverage. *)

\* sections, read as [start, end), ascend and tile [0, n)
Tiles(sections, n) ==
    IF sections = <<>> THEN n = 0
    ELSE /\ sections[1].start = 0
         /\ sections[Len(sections)].end = n
         /\ \A k \in DOMAIN sections : sections[k].start <= sections[k].end
         /\ \A k \in 1..(Len(sections) - 1) : sections[k + 1].start = sections[k].end

\* the entity and hashtag ranges of the block, sorted, do not overlap
RangesDisjoint(block, hashConfig) ==
    LET rs == SortByOffset(EntityPreSections(block.entityRanges)
                           \o getHashtagRanges(block.text, hashConfig))
    IN  \A k \in 1..(Len(rs) - 1) : rs[k].offset + rs[k].length <= rs[k + 1].offset

\* C1: the sections getSections returns for a non-atomic block are ascending
\* and tile [0, text.length): the first starts at 0, each starts where the
\* previous one ended, the last ends at text.length.  Stated here for the
\* blocks whose entity and hashtag ranges do not overlap one another.
C1_SectionsTileText ==
    (op = "getSections" /\ ~isAtomicBlock(args.block)
        /\ RangesDisjoint(args.block, args.hashConfig))
        => Tiles(ret, Len(args.block.text))

-----------------------------------------------------------------------------
(* Style runs. *)

\* the characters of text at offsets [start, end), as a style section holds them
TextSlice(text, start, end) == [i \in 1..(end - start) |-> CharAt(text, start + i - 1)]

\* the family's values at offsets i and i - 1 of the block agree
SameFamilyValues(block, matchKeys, i) ==
    \A k \in DOMAIN matchKeys :
        StyleAt(getStyleArrayForBlock(block), matchKeys[k], i)
            = StyleAt(getStyleArrayForBlock(block), matchKeys[k], i - 1)

\* runs is the partition of [start, end) into maximal runs of constant values
IsMaximalRunPartition(runs, block, matchKeys, start, end) ==
    /\ runs # <<>>
    /\ runs[1].start = start
    /\ runs[Len(runs)].end = end
    /\ \A k \in 1..(Len(runs) - 1) : runs[k + 1].start = runs[k].end
    /\ \A k \in DOMAIN runs :
          /\ runs[k].start < runs[k].end
          /\ runs[k].text = TextSlice(block.text, runs[k].start, runs[k].end)
          /\ \A i \in (runs[k].start + 1)..(runs[k].end - 1) :
                SameFamilyValues(block, matchKeys, i)
    /\ \A k \in 1..(Len(runs) - 1) :
          ~SameFamilyValues(block, matchKeys, runs[k].end)

\* C2: for a block with non-empty text, a style family and a span
\* 0 <= start < end <= text.length, getStyleSections returns the partition of
\* the span into maximal runs of constant family values, every character of
\* the span in exactly one run.
C2_StyleSectionsPartitionSpan ==
    op = "getStyleSections"
        => IsMaximalRunPartition(ret, args.block, args.matchKeys, args.start, args.end)

-----------------------------------------------------------------------------
(* Hashtag ranges. *)

\* text[from, from + Len(p)) is p
OccursAt(text, p, from) ==
    from >= 0 /\ from + Len(p) <= Len(text) /\ SubSeq(text, from + 1, from + Len(p)) = p

\* r is a hashtag of text in absolute positions: at 0 or right after a
\* separator, the trigger and then a non-empty body that holds no separator
\* and ends at a separator or at the end of the text
IsHashtagOf(r, text, hashConfig) ==
    LET bodyStart == r.offset + Len(hashConfig.trigger)
        bodyEnd == r.offset + r.length
    IN  /\ r.offset = 0
           \/ OccursAt(text, hashConfig.separator, r.offset - Len(hashConfig.separator))
        /\ OccursAt(text, hashConfig.trigger, r.offset)
        /\ bodyStart < bodyEnd
        /\ bodyEnd <= Len(text)
        /\ IndexOf(SubSeq(text, bodyStart + 1, bodyEnd), hashConfig.separator) = -1
        /\ bodyEnd = Len(text) \/ OccursAt(text, hashConfig.separator, bodyEnd)

\* C5: with a non-empty trigger and separator every range getHashtagRanges
\* returns is a hashtag of the original text in absolute positions, the ranges
\* ascend without overlapping, and "hello #world foo" gives {offset 6, length 6}.
C5_HashtagRangesAbsolute ==
    op = "getHashtagRanges" =>
        /\ \A k \in DOMAIN ret : IsHashtagOf(ret[k], args.text, args.hashConfig)
        /\ \A k \in 1..(Len(ret) - 1) : ret[k].offset + ret[k].length <= ret[k + 1].offset
        /\ (args.text = HelloWorldFoo /\ args.hashConfig = DefaultHashConfig)
              => (Len(ret) = 1 /\ ret[1].offset = 6 /\ ret[1].length = 6)

-----------------------------------------------------------------------------
(* Style nesting. *)

\* the block has exactly a BOLD range over its whole text and a color range
\* over a part of it, in either order, and no entity range
BoldWholeColorPart(block) ==
    /\ block.entityRanges = <<>>
    /\ Len(block.inlineStyleRanges) = 2
    /\ \E b, c \in 1..2 :
          /\ b # c
          /\ block.inlineStyleRanges[b].style = <<"B", "O", "L", "D">>
          /\ block.inlineStyleRanges[b].offset = 0
          /\ block.inlineStyleRanges[b].length = Len(block.text)
          /\ StartsWith(block.inlineStyleRanges[c].style, <<"c", "o", "l", "o", "r", "-">>)
          /\ block.inlineStyleRanges[c].length < Len(block.text)

\* the color range of such a block
ColorRangeOf(block) ==
    block.inlineStyleRanges[CHOOSE c \in 1..2 :
                               StartsWith(block.inlineStyleRanges[c].style, <<"c", "o", "l", "o", "r", "-">>)]

\* the span that gives chars the color value
ColorSpan(value, chars) ==
    <<"<", "s", "p", "a", "n", " ", "s", "t", "y", "l", "e", "=", "\"", "c", "o", "l", "o", "r", ":", " ">> \o value \o <<";", "\"", " ", "d", "a", "t", "a", "-", "c", "o", "l", "o", "r", "=", "\"", "t", "r", "u", "e", "\"", ">">> \o chars \o <<"<", "/", "s", "p", "a", "n", ">">>

\* the string-style runs of such a block, in text order: the text before the
\* color range, the colored span, the text after it
ColorRunsText(block) ==
    LET r == ColorRangeOf(block)
    IN  SubSeq(block.text, 1, r.offset)
        \o ColorSpan(SubSeq(r.style, 7, Len(r.style)),
                     SubSeq(block.text, r.offset + 1, r.offset + r.length))
        \o SubSeq(block.text, r.offset + r.length + 1, Len(block.text))

\* the token pair of BOLD under the configuration
BoldTokens(config) ==
    IF "BOLD" \in DOMAIN config.customStyleTransform
    THEN Pair(<<"<", "b", ">">>, <<"<", "/", "b", ">">>) ELSE Pair(<<"*", "*">>, <<"*", "*">>)

\* C3: when a boolean style covers a whole section and a string style only a
\* part of it, the rendering is the boolean token pair around the
\* concatenation, in text order, of the renderings of all string-style runs;
\* "ab" with BOLD over [0,2) and color-red over [0,1) renders as
\* **<span style="color: red;" data-color="true">a</span>b**.
C3_BooleanWrapsAllStringRuns ==
    (op = "getBlockContentMarkdown" /\ BoldWholeColorPart(args.block))
        => ret = BoldTokens(args.config).left \o ColorRunsText(args.block)
                    \o BoldTokens(args.config).right

-----------------------------------------------------------------------------
(* Whitespace escaping. *)

\* the number of leading spaces of s
RECURSIVE LeadingSpaces(_)
LeadingSpaces(s) ==
    IF s # <<>> /\ Head(s) = " " THEN 1 + LeadingSpaces(Tail(s)) ELSE 0

\* the number of trailing spaces of s
RECURSIVE TrailingSpaces(_)
TrailingSpaces(s) ==
    IF s # <<>> /\ s[Len(s)] = " " THEN 1 + TrailingSpaces(SubSeq(s, 1, Len(s) - 1)) ELSE 0

\* s with each space of its leading run replaced by &nbsp;
LeadingEscaped(s) ==
    Repeat(<<"&", "n", "b", "s", "p", ";">>, LeadingSpaces(s)) \o SubSeq(s, LeadingSpaces(s) + 1, Len(s))

\* s with each space of its trailing run replaced by &nbsp;
TrailingEscaped(s) ==
    SubSeq(s, 1, Len(s) - TrailingSpaces(s)) \o Repeat(<<"&", "n", "b", "s", "p", ";">>, TrailingSpaces(s))

\* the renderings of the sections from the k-th on, the first with its
\* leading run escaped and the last with its trailing run escaped
RECURSIVE EndsEscapedFrom(_, _, _)
EndsEscapedFrom(a, sections, k) ==
    IF k > Len(sections) THEN <<>>
    ELSE LET out == getSectionMarkdown(a.block, a.entityMap, sections[k],
                                       a.customEntityTransform, a.config)
             led == IF k = 1 THEN LeadingEscaped(out) ELSE out
         IN  (IF k = Len(sections) THEN TrailingEscaped(led) ELSE led)
             \o EndsEscapedFrom(a, sections, k + 1)

\* C4: for a non-atomic block getBlockContentMarkdown replaces the leading
\* run of spaces of the first section's output and the trailing run of spaces
\* of the last section's output by &nbsp;, also when one section is both.
C4_BothEndsEscaped ==
    (op = "getBlockContentMarkdown" /\ path = "sections")
        => ret = EndsEscapedFrom(args, getSections(args.block, args.hashConfig), 1)

-----------------------------------------------------------------------------
(* Block separator. *)

EndsWith(s, suffix) ==
    Len(suffix) <= Len(s) /\ SubSeq(s, Len(s) - Len(suffix) + 1, Len(s)) = suffix

\* C6: a block's rendering ends with the separator of the configuration:
\* without printBreakLineLiteral two newlines under emptyLineBeforeBlock and
\* one otherwise; with printBreakLineLiteral literal backslash-n tokens and no
\* real newline, whatever emptyLineBeforeBlock.
C6_SeparatorFollowsConfig ==
    op = "getBlockMarkdown" =>
        IF args.config.printBreakLineLiteral
        THEN EndsWith(ret, <<"\\", "n">>) /\ \A i \in DOMAIN ret : ret[i] # "\n"
        ELSE IF args.config.emptyLineBeforeBlock
        THEN EndsWith(ret, <<"\n", "\n">>)
        ELSE EndsWith(ret, <<"\n">>) /\ ~EndsWith(ret, <<"\n", "\n">>)

-----------------------------------------------------------------------------
(* Optional hashConfig. *)

\* the hash config the conversion is to run with: '#' for a missing trigger,
\* ' ' for a missing separator, also when hashConfig is absent
ExpectedHashConfig(hashConfig) ==
    [trigger |-> IF IsDefined(hashConfig) /\ IsDefined(hashConfig[1].trigger)
                 THEN hashConfig[1].trigger[1] ELSE <<"#">>,
     separator |-> IF IsDefined(hashConfig) /\ IsDefined(hashConfig[1].separator)
                   THEN hashConfig[1].separator[1] ELSE <<" ">>]

\* the blocks of the document, none when the block list is absent
BlocksOf(editorContent) ==
    IF IsDefined(editorContent.blocks) THEN editorContent.blocks[1] ELSE <<>>

\* C7: hashConfig is optional: when it is absent or omits a field the
\* conversion does not raise and runs with the default of each missing field.
C7_HashConfigOptional ==
    op = "draftToMarkdown" =>
        /\ ~ret.threw
        /\ ret.value = BlocksMarkdown(BlocksOf(args.editorContent),
                                      defaultBlockTypesMapping,
                                      args.editorContent.entityMap,
                                      ExpectedHashConfig(args.hashConfig),
                                      "absent", args.config)

-----------------------------------------------------------------------------
(* Entity override precedence. *)

\* the rendering of an entity by its type alone
RenderingByType(entity, text) ==
    IF entity.type = "LINK" \/ entity.type = "MENTION"
    THEN <<"[">> \o text \o <<"]", "(">> \o entity.data.url \o <<")">>
    ELSE IF entity.type = "IMAGE"
    THEN <<"!", "[">> \o (IF entity.data.alt = <<>> THEN <<>> ELSE entity.data.alt[1])
         \o <<"]", "(">> \o entity.data.src \o <<")">>
    ELSE IF entity.type = "EMBEDDED_LINK"
    THEN <<"<", "i", "f", "r", "a", "m", "e", " ", "w", "i", "d", "t", "h", "=", "\"">> \o NatToString(entity.data.width) \o <<"\"", " ", "h", "e", "i", "g", "h", "t", "=", "\"">>
         \o NatToString(entity.data.height) \o <<"\"", " ", "s", "r", "c", "=", "\"">> \o entity.data.src
         \o <<"\"", " ", "f", "r", "a", "m", "e", "B", "o", "r", "d", "e", "r", "=", "\"", "0", "\"", " ", "a", "l", "l", "o", "w", "F", "u", "l", "l", "S", "c", "r", "e", "e", "n", " ", "/", ">">>
    ELSE text

\* what the caller's override returns, undefined when there is none
OverrideResult(customEntityTransform, entity, text) ==
    IF customEntityTransform = "absent" THEN Undefined
    ELSE CallCustomEntityTransform(customEntityTransform, entity, text)

\* the rendering of an entity: the override's string when it is defined, the
\* rendering by type otherwise
EntityRendering(entity, text, customEntityTransform) ==
    IF OverrideResult(customEntityTransform, entity, text) # Undefined
    THEN OverrideResult(customEntityTransform, entity, text)[1]
    ELSE RenderingByType(entity, text)

\* C9: for an entity of any type and any inner text, getEntityMarkdown returns
\* the string of customEntityTransform when that is supplied and returns a
\* defined string; otherwise the built-in rendering of the entity's type, the
\* inner text itself for an unknown type.
C9_OverrideWins ==
    op = "getEntityMarkdown"
        => ret = EntityRendering(args.entity, args.text, args.customEntityTransform)

\* the override's tag around a non-empty text replaces the link markdown
C9_Witness ==
    /\ op = "getEntityMarkdown"
    /\ args.customEntityTransform = "links"
    /\ args.entity.type = "LINK"
    /\ args.text = <<"a", "#">>
    /\ ret = <<"<", "a", ">", "a", "#", "<", "/", "a", ">">>

-----------------------------------------------------------------------------
(* Atomic blocks. *)

\* the text has no character other than white space
IsBlank(text) == \A i \in DOMAIN text : text[i] \in {" ", "\n", "\t"}

\* the entity of the block's first entity range
FirstEntity(a) == a.entityMap[a.block.entityRanges[1].key]

\* the block of the specification's example: empty text, one range to the IMAGE
IsImageExample(a) ==
    /\ a.block.text = <<>>
    /\ Len(a.block.entityRanges) = 1
    /\ a.block.entityRanges[1].key = 2
    /\ a.customEntityTransform = "absent"

\* C8 as stated: the atomic short-circuit is taken exactly when the block has
\* an entity range and a text of length zero, and then renders the first
\* entity around an empty inner string; every block with a non-empty text is
\* rendered from its sections.
C8_AtomicIffZeroLength ==
    op = "getBlockContentMarkdown" =>
        /\ path = "atomic" <=> (Len(args.block.entityRanges) > 0 /\ Len(args.block.text) = 0)
        /\ path = "atomic"
              => ret = EntityRendering(FirstEntity(args), <<>>, args.customEntityTransform)
        /\ IsImageExample(args) => ret = <<"!", "[", "y", "]", "(", "x", ".", "p", "n", "g", ")">>

\* C8 amended: the atomic short-circuit is taken exactly when the block has an
\* entity range and a text that is empty or holds only white space, and then
\* renders the first entity around an empty inner string (the IMAGE example
\* gives ![y](x.png)); every block whose text has another character is
\* rendered from its sections.
C8_AtomicIffBlank ==
    op = "getBlockContentMarkdown" =>
        /\ path = "atomic" <=> (Len(args.block.entityRanges) > 0 /\ IsBlank(args.block.text))
        /\ path = "atomic"
              => ret = EntityRendering(FirstEntity(args), <<>>, args.customEntityTransform)
        /\ IsImageExample(args) => ret = <<"!", "[", "y", "]", "(", "x", ".", "p", "n", "g", ")">>

\* a block of two spaces with a range to the LINK takes the short-circuit
C8_Witness ==
    /\ op = "getBlockContentMarkdown"
    /\ path = "atomic"
    /\ args.block.text = <<" ", " ">>
    /\ args.customEntityTransform = "absent"
    /\ ret = <<"[", "]", "(", "u", ")">>

-----------------------------------------------------------------------------
(* List indentation. *)

\* the prefix of the block types of the documents
PrefixOfType(type) ==
    CASE type = "unordered-list-item" -> <<"-", " ">>
      [] type = "ordered-list-item" -> <<"1", ".", " ">>
      [] type = "header-one" -> <<"#", " ">>
      [] OTHER -> <<>>

Spaces(n) == [i \in 1..n |-> " "]

\* the content and the separator of a block of a document
ContentAndSeparator(a, block) ==
    getBlockContentMarkdown(block, a.editorContent.entityMap,
                            ExpectedHashConfig(a.hashConfig), "absent", a.config)
    \o BlockSeparator(a.config)

\* the rendering of a block: 4 * depth spaces before a list item, none before
\* a block of another type, then the prefix and the content
IndentedBlock(a, block) ==
    (IF block.type \in {"unordered-list-item", "ordered-list-item"}
     THEN Spaces(4 * block.depth) ELSE <<>>)
    \o PrefixOfType(block.type) \o ContentAndSeparator(a, block)

RECURSIVE IndentedBlocks(_, _)
IndentedBlocks(a, blocks) ==
    IF blocks = <<>> THEN <<>>
    ELSE IndentedBlock(a, Head(blocks)) \o IndentedBlocks(a, Tail(blocks))

\* the call is of the specification's example: an unordered-list-item of
\* depth 2 and text "x", under the defaults
IsListExample(a) ==
    /\ a.editorContent.blocks = Some(<<Block(<<"x">>, "unordered-list-item", 2, <<>>, <<>>)>>)
    /\ a.config = DefaultConfig

\* C10: in the document output a list block of depth d begins with exactly
\* 4 * d spaces, then the block-type prefix and the content (depth 2, text "x",
\* unordered-list-item: 8 spaces then "- x"); a block of another type gets no
\* indentation whatever its depth.  Stated of the calls that return.
C10_ListIndentation ==
    (op = "draftToMarkdown" /\ ~ret.threw) =>
        /\ ret.value = IndentedBlocks(args, BlocksOf(args.editorContent))
        /\ IsListExample(args) => ret.value = <<" ", " ", " ", " ", " ", " ", " ", " ", "-", " ", "x", "\n">>

\* the example call has returned
C10_Witness ==
    /\ op = "draftToMarkdown"
    /\ ~ret.threw
    /\ IsListExample(args)
    /\ ret.value = <<" ", " ", " ", " ", " ", " ", " ", " ", "-", " ", "x", "\n">>


-----------------------------------------------------------------------------
(* Concatenation of block renderings. *)

\* the conversion of the block list bs under the arguments of the call a
ConversionOf(a, bs) ==
    draftToMarkdown([a.editorContent EXCEPT !.blocks = Some(bs)], a.hashConfig,
                    "absent", a.config).value

\* the document of the call has three blocks, not all of one type
IsThreeBlockDocument(a) ==
    /\ Len(BlocksOf(a.editorContent)) = 3
    /\ \E i, j \in 1..3 : isList(BlocksOf(a.editorContent)[i].type)
                          /\ ~isList(BlocksOf(a.editorContent)[j].type)

\* C11: the output of draftToMarkdown is the concatenation, in input order,
\* of the renderings of its blocks, each depending on its own block only:
\* converting the block list A followed by B gives the conversion of A
\* followed by the conversion of B, for every split of the list, and an empty
\* or absent block list gives the empty string.  Stated of the calls that
\* return.
C11_BlocksConcatenate ==
    (op = "draftToMarkdown" /\ ~ret.threw) =>
        LET blocks == BlocksOf(args.editorContent)
        IN  /\ \A k \in 0..Len(blocks) :
                  ret.value = ConversionOf(args, SubSeq(blocks, 1, k))
                              \o ConversionOf(args, SubSeq(blocks, k + 1, Len(blocks)))
            /\ blocks = <<>> => ret.value = <<>>

\* a document of three blocks has been converted and its output is the
\* conversion of its first block followed by that of its last two
C11_Witness ==
    /\ op = "draftToMarkdown"
    /\ ~ret.threw
    /\ IsThreeBlockDocument(args)
    /\ ret.value # <<>>
    /\ ret.value = ConversionOf(args, SubSeq(BlocksOf(args.editorContent), 1, 1))
                   \o ConversionOf(args, SubSeq(BlocksOf(args.editorContent), 2, 3))

-----------------------------------------------------------------------------
(* Termination of the hashtag scan. *)

\* C12: the hashtag scan terminates for every block text and every trigger
\* and separator a caller can pass, the empty string included: each iteration
\* of its loop either shortens the working text or ends the loop.
C12_EachIterationProgresses ==
    [][(op = "hashtagScan" /\ path = "loop" /\ path' = "loop")
          => (Len(ret'.text) < Len(ret.text) \/ ~HashContinues(ret'))]_vars

-----------------------------------------------------------------------------
(* Last range wins in the style arrays. *)

\* the prefix of the style tokens of each string style name set from a token
StylePrefixes ==
    [COLOR |-> <<"c", "o", "l", "o", "r", "-">>, BGCOLOR |-> <<"b", "g", "c", "o", "l", "o", "r", "-">>,
     FONTSIZE |-> <<"f", "o", "n", "t", "s", "i", "z", "e", "-">>, FONTFAMILY |-> <<"f", "o", "n", "t", "f", "a", "m", "i", "l", "y", "-">>]

\* the style token maps to the style name: it begins with the prefix of a
\* string style name, or it spells a boolean style name
MapsTo(style, name) ==
    IF name \in DOMAIN StylePrefixes THEN StartsWith(style, StylePrefixes[name])
    ELSE name \in Range(BOOLEAN_INLINE_STYLE_NAMES) /\ BooleanStyleToken[name] = style

\* the value a token sets for the style name it maps to: the rest of the
\* token after the prefix, or true
ValueSetBy(style, name) ==
    IF name \in DOMAIN StylePrefixes THEN Substr(style, Len(StylePrefixes[name]))
    ELSE TRUE

\* the ranges, by position in the array, that map to name and cover index i
Covering(ranges, name, i) ==
    {k \in DOMAIN ranges :
        /\ MapsTo(ranges[k].style, name)
        /\ ranges[k].offset <= i
        /\ i < ranges[k].offset + ranges[k].length}

\* the value of name at index i: that of the last covering range, or unset
ValueOfLastCovering(ranges, name, i) ==
    LET covering == Covering(ranges, name, i)
    IN  IF covering = {} THEN Undefined
        ELSE Some(ValueSetBy(ranges[CHOOSE k \in covering : \A j \in covering : j <= k].style,
                             name))

\* C13: in the dense style arrays of getStyleArrayForBlock the value of a
\* style name at a character index is the value set by the last inline style
\* range, in array order, that maps to that style name and covers the index;
\* an index covered by no such range stays unset, so that ranges of other
\* style names and ranges of an unrecognized token change nothing.
C13_LastRangeWins ==
    op = "getStyleArrayForBlock" =>
        /\ ret.length = Len(args.block.text)
        /\ \A name \in Range(INLINE_STYLE_NAMES) :
              \A i \in 0..(Len(args.block.text) - 1) :
                 ret.arrays[name][i] =
                     ValueOfLastCovering(args.block.inlineStyleRanges, name, i)

\* two ranges of different colours overlap at an index, and the array holds
\* there the colour of the second while the first keeps an index of its own
C13_Witness ==
    /\ op = "getStyleArrayForBlock"
    /\ Len(args.block.inlineStyleRanges) = 2
    /\ args.block.inlineStyleRanges[1].style = <<"c", "o", "l", "o", "r", "-", "r", "e", "d">>
    /\ args.block.inlineStyleRanges[2].style = <<"c", "o", "l", "o", "r", "-", "b", "l", "u", "e">>
    /\ \E i, j \in 0..(Len(args.block.text) - 1) :
          /\ Covering(args.block.inlineStyleRanges, "COLOR", i) = {1, 2}
          /\ Covering(args.block.inlineStyleRanges, "COLOR", j) = {1}
          /\ ret.arrays["COLOR"][i] = Some(<<"b", "l", "u", "e">>)
          /\ ret.arrays["COLOR"][j] = Some(<<"r", "e", "d">>)
====
